---- MODULE Spec2Model ----
(***************************************************************************)
(* Model of src/app.py, the Streamlit form "Roche Lab Operations - Delay   *)
(* Prediction System".                                                     *)
(*                                                                         *)
(* Streamlit executes the whole script top to bottom once when the page    *)
(* is opened and once more after every user interaction (a widget edit or  *)
(* a click of the button).  Widget values live in the session between the  *)
(* runs; everything else (input_data, model, prediction, what is drawn on  *)
(* the page) is rebuilt by each run.  One action of this model is one      *)
(* interaction together with the complete script run it triggers.          *)
(*                                                                         *)
(* Scales: delays are whole minutes; the ambient temperature is kept in    *)
(* hundredths of a degree (the step of a float slider), so 18.0 is 1800.   *)
(* A batch id "BATCH_ddd" is kept as its digit sequence <<d,d,d>>: the     *)
(* prefix is common to all ids and decides neither order nor equality.     *)
(***************************************************************************)
EXTENDS Integers, Sequences, FiniteSets, TLC

VARIABLES
    session,         \* the widget values held by the Streamlit session
    duration_entry,  \* the session's entry for the number_input of line 54
    input_data,      \* the one-row DataFrame built by the last run
    button,          \* what st.button returned in the last run
    env,             \* what the last run met on disk and in the artifact
    predict_arg,     \* the value handed to model.predict in the last run
    model,           \* the script's binding of `model` at the end of the run
    display,         \* what the last run drew in the prediction block
    trace,           \* the steps of the last run, in execution order
    clicks,          \* clicks of "Predict Delay Risk" so far
    loads,           \* calls of joblib.load so far
    edits,           \* widget edits so far
    entered,         \* history: the last duration the user typed, if any
    entered_here     \* history: the same, forgotten when the type changes

vars == <<session, duration_entry, input_data, button, env, predict_arg,
          model, display, trace, clicks, loads, edits, entered, entered_here>>

\* An optional value is a sequence of length 0 or 1.
None == <<>>
Some(x) == <<x>>

\* ------------------------------------------------------------------ bounds
MaxEdits == 2
MaxClicks == 2
MaxDelay == 50

\* ----------------------------------------------------- widgets (lines 22-54)
\* st.sidebar.slider(label, min_value, max_value, value)
LabOccupancyWidget == [min |-> 0, max |-> 100, value |-> 70]
ScientistWorkloadWidget == [min |-> 1, max |-> 20, value |-> 5]
HourOfDayWidget == [min |-> 0, max |-> 23, value |-> 10]
DaysSinceStartWidget == [min |-> 0, max |-> 730, value |-> 100]
MeanAmbientTempWidget == [min |-> 1800, max |-> 3000, value |-> 2200]

\* Variant: a slider one step too wide at each end.
slider_off_by_one(w, v) == v \in (w.min - 1)..(w.max + 1)
\* The values a slider lets the user pick.
slider(w, v) == v \in w.min..w.max

ExperimentTypes == <<"Validation", "QC", "Pilot", "Screening", "R&D">>
InstrumentTypes == <<"Microscope", "Centrifuge", "Spectrometer", "HPLC",
                     "Incubator", "PCR">>
ScientistExperiences == <<"Junior", "Mid", "Senior">>
PriorityLevels == <<"Low", "Medium", "High", "Critical">>

Range(s) == {s[i] : i \in DOMAIN s}

\* f"{i:03d}": the decimal digits of i, zero-padded on the left to width 3.
RECURSIVE Digits(_)
Digits(i) == IF i < 10 THEN <<i>> ELSE Append(Digits(i \div 10), i % 10)

RECURSIVE ZeroPad(_, _)
ZeroPad(ds, width) == IF Len(ds) >= width THEN ds ELSE ZeroPad(<<0>> \o ds, width)

Format03d(i) == ZeroPad(Digits(i), 3)

\* Python's order on strings, here on digit sequences: lexicographic.
RECURSIVE StrLess(_, _)
StrLess(a, b) ==
    IF Len(a) = 0 THEN Len(b) > 0
    ELSE IF Len(b) = 0 THEN FALSE
    ELSE IF a[1] # b[1] THEN a[1] < b[1]
    ELSE StrLess(Tail(a), Tail(b))

\* sorted(xs): a stable ascending sort that keeps every element.
RECURSIVE Insert(_, _)
Insert(x, s) ==
    IF Len(s) = 0 THEN <<x>>
    ELSE IF StrLess(x, s[1]) THEN <<x>> \o s
    ELSE <<s[1]>> \o Insert(x, Tail(s))

RECURSIVE sorted(_)
sorted(xs) == IF Len(xs) = 0 THEN <<>>
              ELSE Insert(xs[Len(xs)], sorted(SubSeq(xs, 1, Len(xs) - 1)))

\* line 35
batch_options ==
    [i \in 1..10 |-> Format03d(i)] \o << <<3, 9, 2>>, <<0, 4, 2>>, <<0, 0, 7>> >>

\* line 36: the options of the selectbox, and the option selected at first
BatchSelectOptions == sorted(batch_options)
BatchSelectIndex == 1

\* lines 52-53
duration_map == ("Validation" :> 60) @@ ("QC" :> 45) @@ ("Pilot" :> 90) @@
                ("Screening" :> 30) @@ ("R&D" :> 120)

\* dict.get(key, default)
DictGet(d, key, default) == IF key \in DOMAIN d THEN d[key] ELSE default

default_duration(experiment_type) == DictGet(duration_map, experiment_type, 60)

\* line 54: st.number_input(label, value=default_duration), without a key.
\* The session files the widget's value under an identity computed from the
\* call's arguments, `value` among them.  A run that renders the widget under
\* the identity of the stored entry gets the stored value back; under another
\* identity the widget is a new one and starts at `value`, and the entry of
\* the widget that was not rendered is dropped.
\* Variant: a widget of fixed identity, which keeps its value when `value`
\* changes.
NumberInputKeyed(entry, value) == [value_arg |-> value, val |-> entry.val]
number_input(entry, value) ==
    IF entry.value_arg = value THEN entry ELSE [value_arg |-> value, val |-> value]

\* The session when the page is opened: every widget at its initial value.
InitialSession ==
    [lab_occupancy |-> LabOccupancyWidget.value,
     scientist_workload |-> ScientistWorkloadWidget.value,
     hour_of_day |-> HourOfDayWidget.value,
     days_since_start |-> DaysSinceStartWidget.value,
     reagent_batch_index |-> BatchSelectIndex,
     experiment_type |-> ExperimentTypes[1],
     instrument_type |-> InstrumentTypes[1],
     scientist_experience |-> ScientistExperiences[1],
     priority_level |-> PriorityLevels[1],
     mean_ambient_temp |-> MeanAmbientTempWidget.value]

\* ------------------------------------------------ the record (lines 60-72)
\* experiment_type .. reagent_batch_id are the values the selectboxes return;
\* priority_level is read from the session and is no column of the frame.
\* Variant: the frame with priority_level as a twelfth column.
InputDataWithPriority(s, expected_duration) ==
    [scientist_workload |-> s.scientist_workload,
     lab_occupancy_level |-> s.lab_occupancy,
     expected_duration |-> expected_duration,
     ambient_temp |-> s.mean_ambient_temp,
     days_since_start |-> s.days_since_start,
     hour_of_day |-> s.hour_of_day,
     stress_index |-> s.scientist_workload * s.lab_occupancy,
     experiment_type |-> s.experiment_type,
     instrument_type |-> s.instrument_type,
     scientist_experience_level |-> s.scientist_experience,
     reagent_batch_id |-> BatchSelectOptions[s.reagent_batch_index],
     priority_level |-> s.priority_level]
InputData(s, expected_duration) ==
    [scientist_workload |-> s.scientist_workload,
     lab_occupancy_level |-> s.lab_occupancy,
     expected_duration |-> expected_duration,
     ambient_temp |-> s.mean_ambient_temp,
     days_since_start |-> s.days_since_start,
     hour_of_day |-> s.hour_of_day,
     stress_index |-> s.scientist_workload * s.lab_occupancy,
     experiment_type |-> s.experiment_type,
     instrument_type |-> s.instrument_type,
     scientist_experience_level |-> s.scientist_experience,
     reagent_batch_id |-> BatchSelectOptions[s.reagent_batch_index]]

\* ------------------------------------- the model artifact (lines 83 and 86)
\* The artifact is an opaque file made outside the repository.  A run meets
\* one of: no file at the path, a file that does not unpickle, or a model
\* trained on some set of columns.

\* The columns of the frame.
RecordFields == DOMAIN InputData(InitialSession, 0)

\* The columns a model may have been trained on: the frame's own columns, the
\* frame's columns without the two engineered ones added last, and the older
\* frame that names the temperature mean_ambient_temp.
SchemaV2 == RecordFields
SchemaNoEngineered == RecordFields \ {"hour_of_day", "stress_index"}
SchemaV1 == (SchemaNoEngineered \ {"ambient_temp"}) \cup {"mean_ambient_temp"}
Schemas == {SchemaV2, SchemaNoEngineered, SchemaV1}

Raise(type, text) == [type |-> type, text |-> text]

\* Python's exception classes: every one of these derives from Exception.
IsInstance(exc, class) ==
    \/ class = "Exception"
    \/ exc.type = class

\* Variant: a load that reads the file a second time when the first fails.
JoblibLoadRetry(file, schema) ==
    IF file = "absent"
    THEN [raised |-> Some(Raise("FileNotFoundError", "No such file or directory")),
          model |-> None, reads |-> 2]
    ELSE IF file = "corrupt"
    THEN [raised |-> Some(Raise("UnpicklingError", "invalid load key")),
          model |-> None, reads |-> 2]
    ELSE [raised |-> None, model |-> Some([schema |-> schema]), reads |-> 1]
\* joblib.load('lab_delay_model_v2.pkl'); `reads` counts the reads of the file.
joblib_load(file, schema) ==
    IF file = "absent"
    THEN [raised |-> Some(Raise("FileNotFoundError", "No such file or directory")),
          model |-> None, reads |-> 1]
    ELSE IF file = "corrupt"
    THEN [raised |-> Some(Raise("UnpicklingError", "invalid load key")),
          model |-> None, reads |-> 1]
    ELSE [raised |-> None, model |-> Some([schema |-> schema]), reads |-> 1]

\* The delays a model returns, in minutes: one of each tier, the two
\* thresholds among them, or every value of a range around zero.
BoundaryDelays == {14, 15, 45}
DelayRange == (-MaxDelay)..MaxDelay

Returns(kind, value) == [kind |-> kind, value |-> value, raised |-> None]
Raises(type, text) == [kind |-> "raise", value |-> 0,
                       raised |-> Some(Raise(type, text))]

\* model.predict(input_data)[0]: what a model trained on `schema` may answer
\* to the frame X.  A column the model needs and the frame lacks cannot be
\* looked up, so the call raises.  Otherwise the answer is the artifact's: a
\* number, something that is no number, or an exception of its own; a model
\* given columns it was not trained on may reject them or ignore them.
PredictAnswers(schema, X, delays) ==
    IF schema \ DOMAIN X # {}
    THEN {Raises("ValueError", "columns are missing")}
    ELSE {Returns("number", d) : d \in delays}
         \cup {Returns("other", 0),
                Raises("TypeError", "unsupported operand"),
                Raises("FileNotFoundError", "lookup table missing")}
         \cup (IF DOMAIN X \ schema # {}
                THEN {Raises("ValueError", "unseen feature names")}
                ELSE {})

NoEnv == [file |-> "None", schema |-> {}, answer |-> Returns("None", 0)]

\* What a click may meet.
Envs(X, delays) ==
    {[NoEnv EXCEPT !.file = f] : f \in {"absent", "corrupt"}}
    \cup UNION {{[file |-> "present", schema |-> sc, answer |-> a] :
                    a \in PredictAnswers(sc, X, delays)} : sc \in Schemas}

\* ------------------------------------------------ Risk Logic (lines 92-103)
\* Variant: the first threshold compared with <=.
RiskLogicLowInclusive(prediction) ==
    IF prediction <= 15
    THEN [risk_color |-> "green", risk_label |-> "LOW RISK"]
    ELSE IF 15 <= prediction /\ prediction < 45
    THEN [risk_color |-> "orange", risk_label |-> "MODERATE RISK"]
    ELSE [risk_color |-> "red", risk_label |-> "HIGH RISK (BOTTLENECK)"]
RiskLogic(prediction) ==
    IF prediction < 15
    THEN [risk_color |-> "green", risk_label |-> "LOW RISK"]
    ELSE IF 15 <= prediction /\ prediction < 45
    THEN [risk_color |-> "orange", risk_label |-> "MODERATE RISK"]
    ELSE [risk_color |-> "red", risk_label |-> "HIGH RISK (BOTTLENECK)"]

\* ------------------------------------- the prediction block (lines 80-116)
\* The body of the try statement, up to the first exception.  `steps` lists
\* what was executed; `header` is the "### Prediction Result" line, `panel`
\* the <div> with the risk label and the expected delay.
TryBody(X, e) ==
    LET load == joblib_load(e.file, e.schema)
        base == [raised |-> None, model |-> None, predict_arg |-> None,
                 header |-> FALSE, panel |-> None, steps |-> <<"load">>,
                 reads |-> load.reads]
    IN  IF load.raised # None
        THEN [base EXCEPT !.raised = load.raised]
        ELSE IF e.answer.kind = "raise"
        THEN [base EXCEPT !.raised = e.answer.raised, !.model = load.model,
                          !.predict_arg = Some(X),
                          !.steps = <<"load", "predict">>]
        ELSE IF e.answer.kind # "number"
        THEN \* `prediction < 15` on a value that does not compare with int
             [base EXCEPT !.raised = Some(Raise("TypeError", "'<' not supported")),
                          !.model = load.model, !.predict_arg = Some(X),
                          !.header = TRUE,
                          !.steps = <<"load", "predict", "header", "classify">>]
        ELSE [base EXCEPT !.model = load.model, !.predict_arg = Some(X),
                          !.header = TRUE,
                          !.panel = Some([risk |-> RiskLogic(e.answer.value),
                                          delay |-> e.answer.value]),
                          !.steps = <<"load", "predict", "header", "classify",
                                      "panel">>]

\* Variant: `except Exception` placed first, so that it catches everything.
ExceptClausesGenericFirst(raised) ==
    IF raised = None THEN [error |-> None, uncaught |-> FALSE]
    ELSE [error |-> Some([message |-> "prediction_error",
                          detail |-> raised[1].text]),
          uncaught |-> FALSE]
\* lines 113-116: the first except clause whose class the exception is in.
\* An exception no clause matches leaves the block (`uncaught`).
ExceptClauses(raised) ==
    IF raised = None THEN [error |-> None, uncaught |-> FALSE]
    ELSE IF IsInstance(raised[1], "FileNotFoundError")
    THEN [error |-> Some([message |-> "model_not_found", detail |-> ""]),
          uncaught |-> FALSE]
    ELSE IF IsInstance(raised[1], "Exception")
    THEN [error |-> Some([message |-> "prediction_error",
                          detail |-> raised[1].text]),
          uncaught |-> FALSE]
    ELSE [error |-> None, uncaught |-> TRUE]

\* line 80 with st.button returning False: the block is skipped.
NotClicked == [model |-> None, predict_arg |-> None,
               display |-> [header |-> FALSE, panel |-> None, error |-> None,
                            uncaught |-> FALSE],
               steps |-> <<>>, reads |-> 0]

PredictionBlock(X, e) ==
    LET t == TryBody(X, e)
        h == ExceptClauses(t.raised)
    IN  [model |-> t.model, predict_arg |-> t.predict_arg,
         display |-> [header |-> t.header, panel |-> t.panel,
                      error |-> h.error, uncaught |-> h.uncaught],
         steps |-> t.steps \o (IF h.error = None THEN <<>> ELSE <<"error">>),
         reads |-> t.reads]

\* ------------------------------------------- one script run (lines 22-116)
\* Variant: the record built and tabled inside the button's block.
ScriptRunRecordOnClick(s, entry, clicked, e) ==
    LET de == number_input(entry, default_duration(s.experiment_type))
        X == InputData(s, de.val)
        blk == IF clicked THEN PredictionBlock(X, e) ELSE NotClicked
    IN  [duration_entry |-> de, input_data |-> X, button |-> clicked,
         block |-> blk,
         trace |-> IF clicked
                   THEN <<"inputs", "record", "table">> \o blk.steps
                   ELSE <<"inputs">>]
\* The script from the widgets to the end of the prediction block: the
\* widgets are read, the frame is built and tabled, and the block runs if the
\* button was clicked.
ScriptRun(s, entry, clicked, e) ==
    LET de == number_input(entry, default_duration(s.experiment_type))
        X == InputData(s, de.val)
        blk == IF clicked THEN PredictionBlock(X, e) ELSE NotClicked
    IN  [duration_entry |-> de, input_data |-> X, button |-> clicked,
         block |-> blk, trace |-> <<"inputs", "record", "table">> \o blk.steps]

\* The session changes to s (and the number_input's entry to entry), and the
\* script runs; clicked says whether the interaction was the button.
Rerun(s, entry, clicked, e) ==
    LET r == ScriptRun(s, entry, clicked, e)
    IN  /\ session' = s
        /\ duration_entry' = r.duration_entry
        /\ input_data' = r.input_data
        /\ button' = r.button
        /\ env' = e
        /\ predict_arg' = r.block.predict_arg
        /\ model' = r.block.model
        /\ display' = r.block.display
        /\ trace' = r.trace
        /\ loads' = loads + r.block.reads

\* Opening the page runs the script once, with no click.
Init ==
    LET entry0 == [value_arg |-> default_duration(InitialSession.experiment_type),
                   val |-> default_duration(InitialSession.experiment_type)]
        r == ScriptRun(InitialSession, entry0, FALSE, NoEnv)
    IN  /\ session = InitialSession
        /\ duration_entry = r.duration_entry
        /\ input_data = r.input_data
        /\ button = r.button
        /\ env = NoEnv
        /\ predict_arg = r.block.predict_arg
        /\ model = r.block.model
        /\ display = r.block.display
        /\ trace = r.trace
        /\ clicks = 0 /\ loads = 0 /\ edits = 0
        /\ entered = None /\ entered_here = None

\* ------------------------------------------------------- the interactions
\* The values tried on a slider: its two ends and one step beyond each.
SliderInputs(w) == {w.min - 1, w.min, w.max, w.max + 1}
\* The positions tried on the batch selectbox: the first, the last, the two
\* around BATCH_007, and one beyond each end of the list.
BatchIndexInputs == {0, 1, 7, 8, Len(BatchSelectOptions), Len(BatchSelectOptions) + 1}
\* The durations typed into the number_input.
DurationInputs == {45, 75}

\* st.selectbox(label, options): the user picks a position of the list.
selectbox(options, i) == i \in 1..Len(options)

\* A widget edit: the session takes the new value and the script reruns.
Edit(s, entry) ==
    /\ edits < MaxEdits
    /\ Rerun(s, entry, FALSE, NoEnv)
    /\ edits' = edits + 1
    /\ UNCHANGED clicks

KeepEntered == UNCHANGED <<entered, entered_here>>

SetLabOccupancy ==
    \E v \in SliderInputs(LabOccupancyWidget) :
        /\ slider(LabOccupancyWidget, v)
        /\ v # session.lab_occupancy
        /\ Edit([session EXCEPT !.lab_occupancy = v], duration_entry)
        /\ KeepEntered

SetScientistWorkload ==
    \E v \in SliderInputs(ScientistWorkloadWidget) :
        /\ slider(ScientistWorkloadWidget, v)
        /\ v # session.scientist_workload
        /\ Edit([session EXCEPT !.scientist_workload = v], duration_entry)
        /\ KeepEntered

SetHourOfDay ==
    \E v \in SliderInputs(HourOfDayWidget) :
        /\ slider(HourOfDayWidget, v)
        /\ v # session.hour_of_day
        /\ Edit([session EXCEPT !.hour_of_day = v], duration_entry)
        /\ KeepEntered

SetDaysSinceStart ==
    \E v \in SliderInputs(DaysSinceStartWidget) :
        /\ slider(DaysSinceStartWidget, v)
        /\ v # session.days_since_start
        /\ Edit([session EXCEPT !.days_since_start = v], duration_entry)
        /\ KeepEntered

SetMeanAmbientTemp ==
    \E v \in SliderInputs(MeanAmbientTempWidget) :
        /\ slider(MeanAmbientTempWidget, v)
        /\ v # session.mean_ambient_temp
        /\ Edit([session EXCEPT !.mean_ambient_temp = v], duration_entry)
        /\ KeepEntered

SetReagentBatch ==
    \E i \in BatchIndexInputs :
        /\ selectbox(BatchSelectOptions, i)
        /\ i # session.reagent_batch_index
        /\ Edit([session EXCEPT !.reagent_batch_index = i], duration_entry)
        /\ KeepEntered

SetExperimentType ==
    \E v \in Range(ExperimentTypes) :
        /\ v # session.experiment_type
        /\ Edit([session EXCEPT !.experiment_type = v], duration_entry)
        /\ entered_here' = None
        /\ UNCHANGED entered

SetInstrumentType ==
    \E v \in Range(InstrumentTypes) :
        /\ v # session.instrument_type
        /\ Edit([session EXCEPT !.instrument_type = v], duration_entry)
        /\ KeepEntered

SetScientistExperience ==
    \E v \in Range(ScientistExperiences) :
        /\ v # session.scientist_experience
        /\ Edit([session EXCEPT !.scientist_experience = v], duration_entry)
        /\ KeepEntered

SetPriorityLevel ==
    \E v \in Range(PriorityLevels) :
        /\ v # session.priority_level
        /\ Edit([session EXCEPT !.priority_level = v], duration_entry)
        /\ KeepEntered

\* The user types a duration: the widget's entry takes it, the script reruns.
SetExpectedDuration ==
    \E v \in DurationInputs :
        /\ v # duration_entry.val
        /\ Edit(session, [duration_entry EXCEPT !.val = v])
        /\ entered' = Some(v)
        /\ entered_here' = Some(v)

\* line 80: a click of "Predict Delay Risk" reruns the script with the button
\* returning True; the run meets one of the environments Envs allows.
Click(delays) ==
    /\ clicks < MaxClicks
    /\ \E e \in Envs(InputData(session, duration_entry.val), delays) :
           Rerun(session, duration_entry, TRUE, e)
    /\ clicks' = clicks + 1
    /\ UNCHANGED edits
    /\ KeepEntered

ClickPredict == Click(BoundaryDelays)
ClickPredictAnyDelay == Click(DelayRange)

Next ==
    \/ SetLabOccupancy
    \/ SetScientistWorkload
    \/ SetHourOfDay
    \/ SetDaysSinceStart
    \/ SetMeanAmbientTemp
    \/ SetReagentBatch
    \/ SetExperimentType
    \/ SetInstrumentType
    \/ SetScientistExperience
    \/ SetPriorityLevel
    \/ SetExpectedDuration
    \/ ClickPredict

Spec == Init /\ [][Next]_vars

\* The form left as opened and the button clicked, the model free to return
\* any delay of the range.
NextRisk == ClickPredictAnyDelay

SpecRisk == Init /\ [][NextRisk]_vars

\* ------------------------------------------------------------ properties
Count(seq, x) == Cardinality({i \in DOMAIN seq : seq[i] = x})
IsPrefix(a, b) == Len(a) <= Len(b) /\ SubSeq(b, 1, Len(a)) = a
Panel == display.panel[1]
Error == display.error[1]
\* The exception raised inside the try statement of the last run, if any.
Failure == IF button THEN TryBody(input_data, env).raised ELSE None

\* C1: the risk tier is a total function of the predicted delay d: whenever
\* predict returns a number the panel is drawn with that delay, and its label
\* is LOW RISK exactly for d < 15, MODERATE RISK exactly for 15 <= d < 45 and
\* HIGH RISK (BOTTLENECK) exactly for d >= 45 (so 15 is MODERATE, 45 is HIGH),
\* for every d of -MaxDelay..MaxDelay.
C1_RiskTiers ==
    (button /\ env.file = "present" /\ env.answer.kind = "number") =>
        /\ display.panel # None
        /\ Panel.delay = env.answer.value
        /\ LET d == env.answer.value
               label == Panel.risk.risk_label
           IN  /\ label \in {"LOW RISK", "MODERATE RISK", "HIGH RISK (BOTTLENECK)"}
               /\ (d < 15) <=> (label = "LOW RISK")
               /\ (15 <= d /\ d < 45) <=> (label = "MODERATE RISK")
               /\ (d >= 45) <=> (label = "HIGH RISK (BOTTLENECK)")

C1_Witness ==
    /\ button /\ display.panel # None
    /\ Panel.delay = 45
    /\ Panel.risk.risk_label = "HIGH RISK (BOTTLENECK)"

\* C2: a click that finds no artifact at the path ends with the "model not
\* found" message; no exception leaves the prediction block, predict is not
\* called, and neither the result header nor the risk panel is drawn.
C2_MissingArtifact ==
    (button /\ env.file = "absent") =>
        /\ display.error = Some([message |-> "model_not_found", detail |-> ""])
        /\ ~display.uncaught
        /\ display.panel = None
        /\ ~display.header
        /\ predict_arg = None

C2_Witness ==
    /\ button /\ env.file = "absent"
    /\ display.error # None /\ Error.message = "model_not_found"

\* C3 (as claimed): every click leaves the widget values as they were, and a
\* click whose load or predict fails for another reason than a missing
\* artifact ends with the "Prediction Error" message carrying the text of the
\* failure, no exception leaving the block.
C3_OtherFailuresArePredictionErrors ==
    [][(clicks' = clicks + 1) =>
          /\ session' = session
          /\ duration_entry' = duration_entry
          /\ (env'.file # "absent" /\ Failure' # None) =>
                 /\ ~display'.uncaught
                 /\ display'.panel = None
                 /\ display'.error =
                        Some([message |-> "prediction_error",
                              detail |-> Failure'[1].text])]_vars

\* C4: the number of loads equals the number of clicks; a run with a click
\* loads once and then calls predict at most once, a run without one does
\* neither; the model a run holds is the one that run loaded; and nothing
\* follows a failure but its message.
C4_OneLoadPerClick ==
    /\ loads = clicks
    /\ Count(trace, "load") = (IF button THEN 1 ELSE 0)
    /\ Count(trace, "predict") <= Count(trace, "load")
    /\ Count(trace, "predict") = Len(predict_arg)
    /\ \A i, j \in DOMAIN trace :
          (trace[i] = "load" /\ trace[j] = "predict") => i < j
    /\ model # None =>
          (button /\ env.file = "present" /\ model[1].schema = env.schema)
    /\ display.error # None =>
          (trace[Len(trace)] = "error" /\ Count(trace, "error") = 1)

C4_Witness ==
    /\ clicks = 2 /\ loads = 2
    /\ button /\ env.file = "corrupt" /\ display.error # None

\* C5 (as claimed): a click that finds a model either hands it a frame with
\* exactly the columns the model was trained on, or ends with an error
\* message and no panel.
C5_SchemaMismatchFailsLoudly ==
    (button /\ env.file = "present") =>
        \/ /\ predict_arg # None
           /\ DOMAIN predict_arg[1] = model[1].schema
        \/ display.error # None /\ display.panel = None

\* The lookup table as the claim gives it.
ClaimedDurations == ("Validation" :> 60) @@ ("QC" :> 45) @@ ("Pilot" :> 90) @@
                    ("Screening" :> 30) @@ ("R&D" :> 120)

\* C6 (as claimed): expected_duration is the duration the user typed, if the
\* user ever typed one, and otherwise the default of the current experiment
\* type.
C6_OverrideSurvivesTypeChange ==
    input_data.expected_duration =
        IF entered # None THEN entered[1]
        ELSE ClaimedDurations[session.experiment_type]

\* C6 (amended): expected_duration is the duration the user typed since the
\* experiment type last changed, if there is one, and otherwise the default
\* of the current experiment type.
C6_OverrideUntilTypeChange ==
    input_data.expected_duration =
        IF entered_here # None THEN entered_here[1]
        ELSE ClaimedDurations[session.experiment_type]

C6_Witness ==
    /\ entered = Some(75) /\ entered_here = None
    /\ session.experiment_type = "Pilot"
    /\ input_data.expected_duration = 90

\* C7: the run does not depend on the priority level: with any other
\* priority in the session and everything else the same, the script builds
\* the same frame, hands the same value to predict and draws the same thing.
C7_PriorityUnused ==
    \A p \in Range(PriorityLevels) :
        LET r == ScriptRun([session EXCEPT !.priority_level = p],
                           duration_entry, button, env)
        IN  /\ r.input_data = input_data
            /\ r.block.predict_arg = predict_arg
            /\ r.block.display = display
            /\ "priority_level" \notin DOMAIN input_data

C7_Witness ==
    /\ session.priority_level = "Critical"
    /\ button /\ display.panel # None

\* The ids the claim lists: BATCH_001..BATCH_010, BATCH_392, BATCH_042 and
\* BATCH_007.
ClaimedBatches == {Format03d(i) : i \in 1..10}
                  \cup {<<3, 9, 2>>, <<0, 4, 2>>, <<0, 0, 7>>}

\* C8 (as claimed): the selectbox offers thirteen batches, the ten sequential
\* ids and the three literals, in sorted order, no id twice, and BATCH_001 is
\* the one selected at first.
C8_ThirteenDistinctSorted ==
    LET opts == BatchSelectOptions
    IN  /\ Len(opts) = 13
        /\ Range(opts) = ClaimedBatches
        /\ Cardinality(Range(opts)) = 13
        /\ \A i, j \in DOMAIN opts : i < j => StrLess(opts[i], opts[j])
        /\ opts[BatchSelectIndex] = <<0, 0, 1>>
        /\ input_data.reagent_batch_id \in Range(opts)

\* C9: every frame the form builds is well-formed: each numeric column lies
\* in its slider's range, each categorical column in its list, stress_index
\* is scientist_workload times lab_occupancy_level of the same frame (so in
\* 0..2000), and the frame of the page as opened has occupancy 70, workload
\* 5, days 100 and temperature 22.0.
C9_WellFormed ==
    /\ input_data.lab_occupancy_level \in 0..100
    /\ input_data.scientist_workload \in 1..20
    /\ input_data.days_since_start \in 0..730
    /\ input_data.hour_of_day \in 0..23
    /\ input_data.ambient_temp \in 1800..3000
    /\ input_data.experiment_type \in
          {"Validation", "QC", "Pilot", "Screening", "R&D"}
    /\ input_data.instrument_type \in
          {"Microscope", "Centrifuge", "Spectrometer", "HPLC", "Incubator", "PCR"}
    /\ input_data.scientist_experience_level \in {"Junior", "Mid", "Senior"}
    /\ input_data.reagent_batch_id \in ClaimedBatches
    /\ input_data.stress_index =
          input_data.scientist_workload * input_data.lab_occupancy_level
    /\ input_data.stress_index \in 0..2000
    /\ (edits = 0) =>
          /\ input_data.lab_occupancy_level = 70
          /\ input_data.scientist_workload = 5
          /\ input_data.days_since_start = 100
          /\ input_data.ambient_temp = 2200

C9_Witness ==
    /\ edits = 2
    /\ input_data.lab_occupancy_level = 100
    /\ input_data.scientist_workload = 20
    /\ input_data.stress_index = 2000

\* The steps of a run in the order of the script.
LinearOrder == <<"inputs", "record", "table", "load", "predict", "header",
                 "classify", "panel">>

\* The parts of C10 that do not say when the record is built: the steps run
\* in the script's order, up to a failure and its message; without a click
\* nothing is loaded, predicted or drawn; a panel is drawn only if the load
\* and the predict of the same run succeeded; a click ends in exactly one of
\* the panel, the "model not found" message and the "Prediction Error"
\* message; and the frame handed to predict is built from the widget values
\* of that run.
C10_Common ==
    /\ \/ IsPrefix(trace, LinearOrder)
       \/ /\ trace[Len(trace)] = "error"
          /\ IsPrefix(SubSeq(trace, 1, Len(trace) - 1), LinearOrder)
    /\ ~button =>
          /\ Count(trace, "load") = 0 /\ Count(trace, "predict") = 0
          /\ predict_arg = None /\ model = None
          /\ display = NotClicked.display
    /\ display.panel # None =>
          /\ button /\ env.file = "present" /\ env.answer.kind = "number"
          /\ model # None /\ predict_arg # None
          /\ trace = LinearOrder
    /\ button =>
          /\ ~display.uncaught
          /\ \/ display.panel # None /\ display.error = None
             \/ /\ display.panel = None /\ display.error # None
                /\ Error.message \in {"model_not_found", "prediction_error"}
    /\ predict_arg # None =>
          /\ predict_arg[1] = input_data
          /\ input_data = InputData(session, duration_entry.val)

\* C10 (as claimed): the above, the record being built only on a click.
C10_RecordOnlyOnClick ==
    /\ C10_Common
    /\ Count(trace, "record") = (IF button THEN 1 ELSE 0)

\* C10 (amended): the above, the record being built and shown as a table in
\* every run, click or no click, right after the inputs are rendered.
C10_RecordEveryRun ==
    /\ C10_Common
    /\ IsPrefix(<<"inputs", "record", "table">>, trace)
    /\ Count(trace, "record") = 1
    /\ ~button => trace = <<"inputs", "record", "table">>

C10_Witness ==
    /\ ~button /\ clicks = 1 /\ edits = 1
    /\ trace = <<"inputs", "record", "table">>
    /\ input_data = InputData(session, duration_entry.val)
====
